---- MODULE Spec2Model ----
(***************************************************************************)
(* Model of src/crypto/traits.rs: the Signing<A> / Verifying<A> capability *)
(* traits, their blanket implementations for references (&T) and the       *)
(* unreachable implementations for PhantomData<A>.                         *)
(*                                                                         *)
(* One call of sign or verify is followed frame by frame: the caller holds *)
(* an implementer behind `depth` references, every reference level is one  *)
(* frame of the blanket impl, and level 0 is the implementer's own method  *)
(* (a concrete implementer, whose behaviour is not fixed by the traits and *)
(* is therefore chosen nondeterministically, or PhantomData<A>).           *)
(***************************************************************************)
EXTENDS Integers, Sequences, FiniteSets

\* ---- bounds -------------------------------------------------------------
MaxLen == 1          \* longest byte sequence passed as data / signature
MaxDepth == 2        \* deepest nesting of references around the implementer
MaxCalls == 2        \* own-method invocations of the concrete implementer

Bytes == {0, 1}
Data == UNION {[1..n -> Bytes] : n \in 0..MaxLen}

\* ---- marker types (all unit structs: no fields) --------------------------
RSA == <<>>
Secret == <<>>
Public == <<>>
PhantomData == <<>>

Algorithm == {"RSA"}
KeyType == {"Secret", "Public"}

\* the two kinds of implementer a call can bottom out in
Implementers == {"real", "standin"}

\* ---- results -------------------------------------------------------------
RPMError == {"SigningFailed", "VerificationFailed"}

NoMsg == <<>>
Ok(s) == [kind |-> "Ok", sig |-> s, err |-> "", msg |-> NoMsg]
Err(e) == [kind |-> "Err", sig |-> <<>>, err |-> e, msg |-> NoMsg]
Abort(m) == [kind |-> "Abort", sig |-> <<>>, err |-> "", msg |-> m]
NoResult == [kind |-> "None", sig |-> <<>>, err |-> "", msg |-> NoMsg]

\* panic message of a concrete implementer that panics on its own
ImplPanic == <<"implementer", "panicked">>

\* unreachable!(..) messages of the PhantomData impls, word by word
PhantomSignMsg ==
    <<"if", "you", "want", "to", "verify", "you", "need", "to",
      "implement", "sign", "of", "the", "Signing", "trait">>
PhantomVerifyMsg ==
    <<"if", "you", "want", "to", "verify", "you", "need", "to",
      "implement", "verify", "of", "the", "Verifying", "trait">>

\* what fn sign / fn verify of a concrete implementer may produce
SignOutcomes == {Ok(s) : s \in Data} \cup {Err(e) : e \in RPMError}
                    \cup {Abort(ImplPanic)}
VerifyOutcomes == {Ok(<<>>)} \cup {Err(e) : e \in RPMError}
                    \cup {Abort(ImplPanic)}

VARIABLES
    pc,        \* "idle" | "calling" | "returning" | "done"
    req,       \* the call as the caller made it
    level,     \* reference level of the frame now executing (0 = implementer)
    argData,   \* `data` as received by the frame now executing
    argSig,    \* `signature` as received by the frame now executing
    ret,       \* value travelling back up the frames
    invoked,   \* own-method invocations of the implementer during this call
    trace,     \* reference levels whose blanket impl was entered, in order
    tstate,    \* state owned by the concrete implementer (advanced by its methods)
    layer      \* the values of the layer's own types

vars == <<pc, req, level, argData, argSig, ret, invoked, trace, tstate, layer>>

NoReq == [op |-> "none", alg |-> "RSA", target |-> "real", depth |-> 0,
          data |-> <<>>, signature |-> <<>>]

Init ==
    /\ pc = "idle"
    /\ req = NoReq
    /\ level = 0
    /\ argData = <<>>
    /\ argSig = <<>>
    /\ ret = NoResult
    /\ invoked = <<>>
    /\ trace = <<>>
    /\ tstate = 0
    /\ layer = [RSA |-> RSA, Secret |-> Secret, Public |-> Public,
                PhantomData |-> PhantomData]

\* ---- the caller ----------------------------------------------------------
Begin(r) ==
    /\ pc \in {"idle", "done"}
    /\ tstate < MaxCalls
    /\ pc' = "calling"
    /\ req' = r
    /\ level' = r.depth
    /\ argData' = r.data
    /\ argSig' = r.signature
    /\ ret' = NoResult
    /\ invoked' = <<>>
    /\ trace' = <<>>
    /\ UNCHANGED <<tstate, layer>>

CallSign ==
    \E a \in Algorithm, t \in Implementers, n \in 0..MaxDepth, d \in Data :
        Begin([op |-> "sign", alg |-> a, target |-> t, depth |-> n,
               data |-> d, signature |-> <<>>])

CallVerify ==
    \E a \in Algorithm, t \in Implementers, n \in 0..MaxDepth,
       d \in Data, s \in Data :
        Begin([op |-> "verify", alg |-> a, target |-> t, depth |-> n,
               data |-> d, signature |-> s])

\* ---- impl Signing<A> for &T / impl Verifying<A> for &T -------------------
\* (variant: the impl resolves to itself instead of to T's)
CalleeSelf(l) == l

\* T is the type one reference level below &T
Callee(l) == l - 1

\* arguments handed to T::sign(self, data)
SignPass(d) == d

\* (variant: data and signature in each other's position)
VerifyPassSwapped(d, s) == <<s, d>>

\* arguments handed to T::verify(self, data, signature)
VerifyPass(d, s) == <<d, s>>

\* (variant: a failed signing is turned into an empty signature)
ForwardSignResultSwallow(r) == IF r.kind = "Err" THEN Ok(<<>>) ELSE r

\* (variant: the result is unwrapped and wrapped again)
ForwardVerifyResultUnwrap(r) ==
    IF r.kind = "Err"
    THEN Abort(<<"called", "Result::unwrap", "on", "an", "Err", "value">>)
    ELSE r

\* the call is the tail expression: its value is the value of the frame
ForwardSignResult(r) == r
ForwardVerifyResult(r) == r

\* (variant: the blanket impl keeps a count of the calls it forwards)
ForwardSignCounting ==
    /\ pc = "calling"
    /\ req.op = "sign"
    /\ level > 0
    /\ level' = Callee(level)
    /\ argData' = SignPass(argData)
    /\ trace' = Append(trace, level)
    /\ tstate' = tstate + 1
    /\ UNCHANGED <<pc, req, argSig, ret, invoked, layer>>

ForwardSign ==
    /\ pc = "calling"
    /\ req.op = "sign"
    /\ level > 0
    /\ level' = Callee(level)
    /\ argData' = SignPass(argData)
    /\ trace' = Append(trace, level)
    /\ UNCHANGED <<pc, req, argSig, ret, invoked, tstate, layer>>

ForwardVerify ==
    /\ pc = "calling"
    /\ req.op = "verify"
    /\ level > 0
    /\ level' = Callee(level)
    /\ argData' = VerifyPass(argData, argSig)[1]
    /\ argSig' = VerifyPass(argData, argSig)[2]
    /\ trace' = Append(trace, level)
    /\ UNCHANGED <<pc, req, ret, invoked, tstate, layer>>

\* ---- a concrete implementer's own fn sign / fn verify --------------------
RealSign ==
    /\ pc = "calling"
    /\ req.op = "sign"
    /\ level = 0
    /\ req.target = "real"
    /\ \E out \in SignOutcomes :
        /\ ret' = out
        /\ invoked' = Append(invoked,
              [op |-> "sign", data |-> argData, signature |-> <<>>, out |-> out])
    /\ tstate' = tstate + 1
    /\ pc' = "returning"
    /\ UNCHANGED <<req, level, argData, argSig, trace, layer>>

RealVerify ==
    /\ pc = "calling"
    /\ req.op = "verify"
    /\ level = 0
    /\ req.target = "real"
    /\ \E out \in VerifyOutcomes :
        /\ ret' = out
        /\ invoked' = Append(invoked,
              [op |-> "verify", data |-> argData, signature |-> argSig, out |-> out])
    /\ tstate' = tstate + 1
    /\ pc' = "returning"
    /\ UNCHANGED <<req, level, argData, argSig, trace, layer>>

\* ---- impl Signing<A> / Verifying<A> for PhantomData<A> -------------------
\* (variant: the missing signer is reported as an ordinary error)
PhantomSignResultErr(d) == Err("SigningFailed")

PhantomSignResult(d) == Abort(PhantomSignMsg)
PhantomVerifyResult(d, x) == Abort(PhantomVerifyMsg)

PhantomSign ==
    /\ pc = "calling"
    /\ req.op = "sign"
    /\ level = 0
    /\ req.target = "standin"
    /\ ret' = PhantomSignResult(argData)
    /\ invoked' = Append(invoked,
          [op |-> "sign", data |-> argData, signature |-> <<>>,
           out |-> PhantomSignResult(argData)])
    /\ pc' = "returning"
    /\ UNCHANGED <<req, level, argData, argSig, trace, tstate, layer>>

PhantomVerify ==
    /\ pc = "calling"
    /\ req.op = "verify"
    /\ level = 0
    /\ req.target = "standin"
    /\ ret' = PhantomVerifyResult(argData, argSig)
    /\ invoked' = Append(invoked,
          [op |-> "verify", data |-> argData, signature |-> argSig,
           out |-> PhantomVerifyResult(argData, argSig)])
    /\ pc' = "returning"
    /\ UNCHANGED <<req, level, argData, argSig, trace, tstate, layer>>

\* ---- coming back up ------------------------------------------------------
\* (variant: a frame that sees an error calls T::sign a second time)
ReturnSignRetry ==
    /\ pc = "returning"
    /\ req.op = "sign"
    /\ level < req.depth
    /\ IF ret.kind = "Err" /\ Len(invoked) < 2
       THEN /\ pc' = "calling"
            /\ ret' = NoResult
            /\ level' = level
       ELSE /\ pc' = pc
            /\ level' = level + 1
            /\ ret' = IF ret.kind = "Abort" THEN ret ELSE ForwardSignResult(ret)
    /\ UNCHANGED <<req, argData, argSig, invoked, trace, tstate, layer>>

\* a panic unwinds through the frame, a value is returned by it
ReturnSign ==
    /\ pc = "returning"
    /\ req.op = "sign"
    /\ level < req.depth
    /\ level' = level + 1
    /\ ret' = IF ret.kind = "Abort" THEN ret ELSE ForwardSignResult(ret)
    /\ UNCHANGED <<pc, req, argData, argSig, invoked, trace, tstate, layer>>

ReturnVerify ==
    /\ pc = "returning"
    /\ req.op = "verify"
    /\ level < req.depth
    /\ level' = level + 1
    /\ ret' = IF ret.kind = "Abort" THEN ret ELSE ForwardVerifyResult(ret)
    /\ UNCHANGED <<pc, req, argData, argSig, invoked, trace, tstate, layer>>

\* the outermost frame hands the outcome to the caller
Finish ==
    /\ pc = "returning"
    /\ level = req.depth
    /\ pc' = "done"
    /\ UNCHANGED <<req, level, argData, argSig, ret, invoked, trace, tstate, layer>>

Next ==
    \/ CallSign
    \/ CallVerify
    \/ ForwardSign
    \/ ForwardVerify
    \/ RealSign
    \/ RealVerify
    \/ PhantomSign
    \/ PhantomVerify
    \/ ReturnSign
    \/ ReturnVerify
    \/ Finish

Spec == Init /\ [][Next]_vars

\* a thread that has entered a call keeps executing it
FairSpec == Spec /\ WF_vars(Next)

\* ---- properties ----------------------------------------------------------
Completed == pc = "done"
ThroughRef == req.depth >= 1
Last == invoked[Len(invoked)]

\* C1: a sign call made through a reference ends with the outcome that T's
\* own sign produced for the caller's data: the same signature bytes on
\* success, the same error on failure, an abort exactly when T's sign aborts.
C1_SignByRefSameAsDirect ==
    (Completed /\ req.op = "sign" /\ ThroughRef) =>
        /\ invoked # <<>>
        /\ Last.op = "sign"
        /\ Last.data = req.data
        /\ ret = Last.out
        /\ (ret.kind = "Abort") = (Last.out.kind = "Abort")

C1_Witness ==
    /\ Completed /\ req.op = "sign" /\ ThroughRef
    /\ req.target = "real"
    /\ req.data = <<>>
    /\ ret.kind = "Err"

\* C2: a verify call made through a reference ends with the outcome that T's
\* own verify produced, and T's verify received the caller's data as data
\* and the caller's signature as signature.
C2_VerifyByRefSameAsDirect ==
    (Completed /\ req.op = "verify" /\ ThroughRef) =>
        /\ invoked # <<>>
        /\ Last.op = "verify"
        /\ Last.data = req.data
        /\ Last.signature = req.signature
        /\ ret = Last.out

C2_Witness ==
    /\ Completed /\ req.op = "verify" /\ ThroughRef
    /\ req.target = "real"
    /\ req.data # req.signature
    /\ Len(req.data) = Len(req.signature)
    /\ ret.kind = "Ok"

\* C3: a call that bottoms out in PhantomData<A> never carries an Ok or an
\* Err: once the stand-in's method has run the only outcome is an abort.
C3_StandInAlwaysAborts ==
    (req.op \in {"sign", "verify"} /\ req.target = "standin") =>
        /\ ret.kind \in {"None", "Abort"}
        /\ (pc \in {"returning", "done"} => ret.kind = "Abort")

C3_Witness ==
    /\ Completed /\ req.target = "standin" /\ req.depth = 0
    /\ req.op = "sign" /\ req.data = <<>>
    /\ ret.kind = "Abort"

\* the words by which a diagnostic can name a capability
SigningWords == {"sign", "Signing"}
VerifyingWords == {"verify", "Verifying"}
WordsOf(op) == IF op = "sign" THEN SigningWords ELSE VerifyingWords
Named(m) == {m[i] : i \in DOMAIN m} \cap (SigningWords \cup VerifyingWords)

\* C4: the diagnostic of the stand-in's abort names the capability of the
\* operation that was called, and no other: sign's names signing, verify's
\* names verifying.
C4_DiagnosticNamesCalledCapability ==
    (Completed /\ req.target = "standin") =>
        /\ Named(ret.msg) # {}
        /\ Named(ret.msg) \subseteq WordsOf(req.op)

\* C5: the layer adds no abort of its own: an Err returned by a concrete
\* implementer reaches the caller as that Err, and a call that ends in an
\* abort either bottomed out in the stand-in or the implementer's own method
\* panicked.
C5_OnlyStandInAborts ==
    Completed =>
        /\ invoked # <<>>
        /\ (req.target = "real" /\ Last.out.kind = "Err") => ret = Last.out
        /\ (ret.kind = "Abort") =>
              \/ req.target = "standin"
              \/ Last.out = Abort(ImplPanic) /\ ret = Last.out

C5_Witness ==
    /\ Completed /\ ThroughRef
    /\ req.target = "real" /\ req.op = "verify"
    /\ ret = Err("VerificationFailed")

\* C6: the layer's own types carry no data and no step changes them; the
\* implementer's state changes only in a step of the implementer's own
\* method, by that method's one advance.
C6_LayerHoldsNoState ==
    /\ [](\A k \in DOMAIN layer : layer[k] = <<>>)
    /\ [][/\ layer' = layer
          /\ (tstate' # tstate) =>
                /\ pc = "calling" /\ level = 0 /\ req.target = "real"
                /\ Len(invoked') = Len(invoked) + 1
                /\ tstate' = tstate + 1]_vars

C6_Witness ==
    /\ Completed /\ req.depth >= 2
    /\ req.target = "real" /\ req.op = "sign"
    /\ tstate = 1

\* C8: one call through a reference invokes the implementer's method exactly
\* once, with the caller's arguments, and returns that invocation's result.
C8_ExactlyOneInvocation ==
    (req.op \in {"sign", "verify"} /\ ThroughRef) =>
        /\ pc = "calling" => Len(invoked) = 0
        /\ pc \in {"returning", "done"} => Len(invoked) = 1
        /\ Completed =>
              /\ invoked[1].op = req.op
              /\ invoked[1].data = req.data
              /\ invoked[1].signature = req.signature
              /\ ret = invoked[1].out

C8_Witness ==
    /\ Completed /\ ThroughRef
    /\ req.target = "real" /\ req.op = "sign"
    /\ Len(invoked) = 1
    /\ ret.kind = "Ok" /\ ret.sig # req.data
    /\ tstate = 2

\* C9: behind n references a call makes n forwarding steps, the i-th from
\* level n-i+1 to the level below it, then the implementer's method runs
\* once and its outcome is the call's; every call that starts completes.
C9_Steps ==
    /\ \A i \in DOMAIN trace : trace[i] = req.depth - i + 1
    /\ pc = "calling" => level + Len(trace) = req.depth
    /\ pc \in {"returning", "done"} => Len(trace) = req.depth
    /\ Completed => Len(invoked) = 1 /\ ret = invoked[1].out

C9_DelegationComposesAndTerminates ==
    /\ []C9_Steps
    /\ (pc = "calling") ~> (pc = "done")

C9_Witness ==
    /\ Completed /\ req.depth >= 2
    /\ Len(trace) = req.depth
    /\ trace[1] = req.depth /\ trace[Len(trace)] = 1
    /\ req.target = "real" /\ ret.kind = "Ok"

====
